---- MODULE Spec2Model ----
(***************************************************************************)
(* A model of process.py: Process / TimeoutProcess / CallbackProcess       *)
(* supervising one child.  The supervisor is one sequential program (pc);  *)
(* the child, the kernel pipes and the wall clock are its environment.     *)
(* Times are multiples of 0.1 s.                                           *)
(***************************************************************************)
EXTENDS Integers, Sequences, FiniteSets, TLC

\* ------------------------------------------------------------- bounds
MaxWrites == 2        \* chunks the child writes in one run
MaxTimeout == 1       \* largest configured timeout (0 stands for None / falsy)
MaxKillLim == 2       \* largest kill_lim a caller passes to kill_process

\* ------------------------------------------------- program constants
PollFreq == 1         \* gather_output(poll_freq=0.1)
PollInterval == 5     \* run(poll_interval=0.5)
TermPause == 2        \* kill_process(termpause=0.2)
KillPause == 1        \* kill_process(killpause=0.1)
KillLimDefault == 20  \* kill_process(kill_lim=20)
CallbackFreq == 1     \* CallbackProcess(c, cb, (1, 3), 0.1, ...)
SIGTERM == 15
SIGKILL == 9
None == 999           \* Python's None, for exit_status / returncode
PIPE == 1             \* subprocess.PIPE; a stream that is not PIPE is 0 here

\* time.time() when the program runs is far above any cadence, so the first
\* cadence test against last_callback = 0 succeeds
Epoch == CallbackFreq
\* the clock stops one step past the largest timeout: later times compare
\* with every timeout as that one does
MaxClock == Epoch + MaxTimeout + 1

Classes == {"Process", "TimeoutProcess", "CallbackProcess"}
Entries == {"gather_output", "run", "start", "run_with_timeout"}
ExitCodes == {0}
Signals == {SIGTERM, SIGKILL}
\* what one invocation of the user's callback does: returns a true value,
\* returns a false value, raises an Exception, raises a BaseException that
\* is no Exception (SystemExit, KeyboardInterrupt)
CallbackOutcomes == {"true", "false", "Exception", "BaseException"}

VARIABLES
    conf,              \* constructor arguments and the child's nature
    pc,                \* the supervisor's position
    call,              \* the top-level call in progress or last finished
    kpRet,             \* where the running kill_process returns to
    exc,               \* the exception that ended the run, or "none"
    clock,             \* time.time(), saturating at MaxClock
    wake,              \* deadline of the select / sleep in progress
    rd,                \* the readable list select returned, not yet read
    child,             \* the child process as the kernel sees it
    pipe,              \* bytes in the kernel pipe of each captured stream
    written,           \* history: every chunk the child wrote, per stream
    returncode,        \* proc.returncode
    exit_status,       \* self.exit_status
    stdout,            \* self.stdout
    stderr,            \* self.stderr
    timed_out,         \* self.timed_out
    callback_failure,  \* self.callback_failure
    start_t,           \* self.start_t
    last_callback,     \* self.last_callback
    success,           \* _periodic_status_checks's local success
    cbo,               \* history: what the callback did to produce success
    ctr,               \* kill_process's local ctr
    kill_lim,          \* kill_process's argument
    nkill,             \* history: SIGKILLs sent by the running kill_process
    nterm,             \* history: SIGTERMs sent by the running kill_process
    termAlive,         \* history: a chk_term after that SIGTERM returned False
    nfail,             \* history: times callback_failure was assigned
    overran            \* history: the child was seen running past the timeout

vars == <<conf, pc, call, kpRet, exc, clock, wake, rd, child, pipe,
          written, returncode, exit_status, stdout, stderr, timed_out,
          callback_failure, start_t, last_callback, success, cbo, ctr,
          kill_lim, nkill, nterm, termAlive, nfail, overran>>

supV == <<pc, call, kpRet, exc, wake, rd, returncode, exit_status,
          stdout, stderr, timed_out, callback_failure, start_t,
          last_callback, success, cbo, ctr, kill_lim, nkill, nterm,
          termAlive, nfail>>
envV == <<conf, clock, overran, written>>
flagsV == <<timed_out, callback_failure, nfail, last_callback, start_t,
            success, cbo>>
kpV == <<ctr, kill_lim, nkill, nterm, termAlive>>
outV == <<stdout, stderr, pipe>>
procV == <<returncode, exit_status, child>>

Min(a, b) == IF a < b THEN a ELSE b

\* the deadline of a wait of p that starts now; at MaxClock the clock no
\* longer shows the time that passes, so a wait that starts there just ends
Deadline(p) == Min(clock + p, MaxClock)

Captured(s) == IF s = "out" THEN conf.outstream = PIPE ELSE conf.errstream = PIPE

\* ------------------------------------------------------------ Init
Init ==
    /\ \E c \in Classes, e \in Entries, o \in {0, PIPE}, r \in {0, PIPE},
          t \in 0..MaxTimeout, rt \in BOOLEAN, rc \in BOOLEAN,
          it \in BOOLEAN, k \in BOOLEAN :
        /\ (c = "Process" /\ e # "run_with_timeout" => t = 0)
        /\ (e = "run_with_timeout"
              => c = "Process" /\ o = PIPE /\ r = PIPE /\ ~rt)
        /\ (t = 0 => ~rt)
        /\ (c # "CallbackProcess" => ~rc)
        /\ (e = "run" => o = 0 /\ r = 0)
        /\ (e = "start" => c = "Process" /\ o = 0 /\ r = 0)
        /\ (~k => it)
        /\ conf = [cls |-> c, entry |-> e, outstream |-> o, errstream |-> r,
                   timeout |-> t, raise_on_timeout |-> rt,
                   raise_on_callback |-> rc, callback_freq |-> CallbackFreq,
                   ignoresTerm |-> it, killable |-> k]
        /\ call = e
    /\ pc = "start"
    /\ kpRet = "none"
    /\ exc = "none"
    /\ clock = Epoch
    /\ wake = Epoch
    /\ rd = <<>>
    /\ child = [state |-> "unborn", code |-> None, pending |-> 0, nw |-> 0]
    /\ pipe = [out |-> <<>>, err |-> <<>>]
    /\ written = [out |-> <<>>, err |-> <<>>]
    /\ returncode = None
    /\ exit_status = None
    /\ stdout = <<>>
    /\ stderr = <<>>
    /\ timed_out = FALSE
    /\ callback_failure = FALSE
    /\ start_t = 0
    /\ last_callback = 0
    /\ success = TRUE
    /\ cbo = "none"
    /\ ctr = 0
    /\ kill_lim = KillLimDefault
    /\ nkill = 0
    /\ nterm = 0
    /\ termAlive = FALSE
    /\ nfail = 0
    /\ overran = FALSE

\* ----------------------------------------------------- environment
\* The child writes its next chunk to a captured stream.  Chunks are numbered
\* so that loss, duplication and reordering all show.
ChildWrite(s) ==
    /\ child.state = "running"
    /\ child.nw < MaxWrites
    /\ Captured(s)
    /\ child' = [child EXCEPT !.nw = @ + 1]
    /\ pipe' = [pipe EXCEPT ![s] = Append(@, child.nw + 1)]
    /\ written' = [written EXCEPT ![s] = Append(@, child.nw + 1)]
    /\ UNCHANGED <<conf, clock, overran>>
    /\ UNCHANGED supV

\* The child exits on its own; the kernel closes its pipe ends and keeps it
\* as a zombie until it is waited for.
ChildExit(code) ==
    /\ child.state = "running"
    /\ child' = [child EXCEPT !.state = "zombie", !.code = code, !.pending = 0]
    /\ UNCHANGED <<conf, clock, overran, pipe, written>>
    /\ UNCHANGED supV

\* A pending fatal signal is delivered: the wait status is minus the signal.
ChildDie ==
    /\ child.state = "running"
    /\ child.pending # 0
    /\ child' = [child EXCEPT !.state = "zombie", !.code = 0 - child.pending,
                              !.pending = 0]
    /\ UNCHANGED <<conf, clock, overran, pipe, written>>
    /\ UNCHANGED supV

\* Time passes while the supervisor waits in select or sleep.
Tick ==
    /\ pc \in {"select", "run_sleep", "kp_termpause", "kp_killpause1",
               "kp_killpause"}
    /\ clock < wake
    /\ clock' = clock + 1
    /\ overran' = (overran \/ (/\ conf.timeout > 0
                               /\ child.state = "running"
                               /\ clock' - start_t > conf.timeout))
    /\ UNCHANGED <<conf, child, pipe, written>>
    /\ UNCHANGED supV

\* ------------------------------------------- the OS primitives used
\* os.kill(pid, sig) fails with ESRCH only when the pid is gone, that is once
\* the child has been waited for; a zombie still has its pid.
PidExists == child.state \in {"running", "zombie"}

Lethal(sig) ==
    \/ sig = SIGTERM /\ ~conf.ignoresTerm
    \/ sig = SIGKILL /\ conf.killable

\* the child after os.kill(pid, sig): delivery is asynchronous, so a fatal
\* signal is only left pending here (ChildDie delivers it)
Signalled(sig) ==
    IF child.state = "running" /\ Lethal(sig)
    THEN [child EXCEPT !.pending = IF sig = SIGKILL \/ @ = 0 THEN sig ELSE @]
    ELSE child

\* send_signal's return value: True if delivered, False on ESRCH
send_signal(sig) == PidExists

\* Popen.poll(): the cached returncode, else waitpid(pid, WNOHANG)
\* (PollNoCache: a poll that keeps no returncode and waits again, getting
\* ECHILD and so 0 for a child already collected)
PollNoCache ==
    IF child.state = "zombie" THEN child.code
    ELSE IF child.state = "reaped" THEN 0 ELSE None
Poll ==
    IF returncode # None THEN returncode
    ELSE IF child.state = "zombie" THEN child.code ELSE None

\* the child after poll(): a zombie is reaped by the waitpid
Polled == IF child.state = "zombie" THEN [child EXCEPT !.state = "reaped"] ELSE child

\* chk_term(): t and f are the positions taken when it returns True / False
ChkTermStatus == IF Poll # None THEN Poll ELSE exit_status
chk_term(t, f) ==
    /\ returncode' = Poll
    /\ child' = Polled
    /\ exit_status' = ChkTermStatus
    /\ pc' = IF Poll # None THEN t ELSE f

\* a sleep or a select timeout is over; a SIGKILLed child is gone within
\* any pause of the supervisor
Awake == clock >= wake /\ ~(child.state = "running" /\ child.pending = SIGKILL)

\* file.read() on a non-blocking pipe: everything buffered; '' at end of
\* file; IOError (EAGAIN) when nothing is buffered and the write end is open
ReadRaises(s) == pipe[s] = <<>> /\ child.state = "running"

\* where the loop of gather_output / run goes round to, and its wait
LoopTop == IF call = "gather_output" THEN "select" ELSE "run_sleep"
LoopWait == IF call = "gather_output" THEN PollFreq ELSE PollInterval
\* where control goes when the loop is left with break
LoopExit == IF conf.cls = "Process" THEN "done" ELSE "post_checks"

\* raise e out of the current top-level call
Raise(e) == pc' = "raised" /\ exc' = e

\* ---------------------------------------------------- start, the loop
\* Process.start / TimeoutProcess.start, and the head of gather_output / run
Start ==
    /\ pc = "start"
    /\ call # "run_with_timeout"
    /\ child' = [child EXCEPT !.state = "running"]
    /\ start_t' = IF conf.cls = "Process" THEN start_t ELSE clock
    /\ pc' = IF call = "start" THEN "idle" ELSE LoopTop
    /\ wake' = IF call = "start" THEN wake ELSE Deadline(LoopWait)
    /\ UNCHANGED <<call, kpRet, exc, rd, returncode, exit_status,
                   timed_out, callback_failure, nfail, last_callback,
                   success, cbo>>
    /\ UNCHANGED <<kpV, outV, envV>>

\* read_fds is [stderr, stdout] without the streams that are no pipes; a
\* descriptor is readable when bytes are buffered or the write end is closed
Readable(s) == Captured(s) /\ (pipe[s] # <<>> \/ child.state # "running")
Ready == SelectSeq(<<"err", "out">>, Readable)

SelectReturn ==
    /\ pc = "select"
    /\ Ready # <<>> \/ Awake
    /\ rd' = Ready
    /\ pc' = "read"
    /\ UNCHANGED <<call, kpRet, exc, wake>>
    /\ UNCHANGED <<procV, flagsV, kpV, outV, envV>>

\* select.error with EINTR: continue
SelectEINTR ==
    /\ pc = "select"
    /\ wake' = Deadline(PollFreq)
    /\ UNCHANGED <<pc, call, kpRet, exc, rd>>
    /\ UNCHANGED <<procV, flagsV, kpV, outV, envV>>

\* self.stdout += x.read() / self.stderr += x.read() for the next x in rd
\* (ReadNoAppend: "=" written for "+=")
ReadNoAppend(s) ==
    /\ stdout' = IF s = "out" THEN pipe.out ELSE stdout
    /\ stderr' = IF s = "err" THEN pipe.err ELSE stderr
    /\ pipe' = [pipe EXCEPT ![s] = <<>>]
ReadInto(s) ==
    /\ stdout' = IF s = "out" THEN stdout \o pipe.out ELSE stdout
    /\ stderr' = IF s = "err" THEN stderr \o pipe.err ELSE stderr
    /\ pipe' = [pipe EXCEPT ![s] = <<>>]

ReadFd ==
    /\ pc = "read"
    /\ rd # <<>>
    /\ rd' = Tail(rd)
    /\ IF ReadRaises(Head(rd))
       THEN Raise("IOError") /\ UNCHANGED outV
       ELSE ReadInto(Head(rd)) /\ UNCHANGED <<pc, exc>>
    /\ UNCHANGED <<call, kpRet, wake>>
    /\ UNCHANGED <<procV, flagsV, kpV, envV>>

\* if self.chk_term(): after the reads of one round
LoopChkTerm ==
    /\ pc \in {"read", "run_chk"}
    /\ rd = <<>>
    /\ chk_term(IF call = "gather_output" THEN "drain_out" ELSE LoopExit, "psc")
    /\ UNCHANGED <<call, kpRet, exc, wake, rd>>
    /\ UNCHANGED <<flagsV, kpV, outV, envV>>

\* self.stdout += self.proc.stdout.read(): proc.stdout is None unless the
\* stream is a pipe
Drain(s, next) ==
    /\ pc = IF s = "out" THEN "drain_out" ELSE "drain_err"
    /\ IF ~Captured(s)
       THEN Raise("AttributeError") /\ UNCHANGED outV
       ELSE IF ReadRaises(s)
            THEN Raise("IOError") /\ UNCHANGED outV
            ELSE ReadInto(s) /\ pc' = next /\ UNCHANGED exc
    /\ UNCHANGED <<call, kpRet, wake, rd>>
    /\ UNCHANGED <<procV, flagsV, kpV, envV>>

DrainOut == Drain("out", "drain_err")
DrainErr == Drain("err", LoopExit)

\* time.sleep(poll_interval) of run
RunSleep ==
    /\ pc = "run_sleep"
    /\ Awake
    /\ pc' = "run_chk"
    /\ UNCHANGED <<call, kpRet, exc, wake, rd>>
    /\ UNCHANGED <<procV, flagsV, kpV, outV, envV>>

\* ------------------------------------------- _periodic_status_checks
\* self.timeout and time.time() - self.start_t > self.timeout
\* (TimeoutTrippedLate: a threshold one poll too late)
TimeoutTrippedLate == conf.timeout # 0 /\ clock - start_t > conf.timeout + PollFreq
\* (TimeoutTrippedUnguarded: "self.timeout and" missing, so that an elapsed
\* time is compared with no timeout at all)
TimeoutTrippedUnguarded == clock - start_t > conf.timeout
TimeoutTripped == conf.timeout # 0 /\ clock - start_t > conf.timeout

\* now - self.last_callback >= self.callback_freq
\* (CadenceElapsedStrict: > for >=, a callback one poll late)
CadenceElapsedStrict == clock - last_callback > conf.callback_freq
CadenceElapsed == clock - last_callback >= conf.callback_freq

\* entering kill_process() with its default arguments, to return to r
EnterKill(r, lim) ==
    /\ pc' = "kp_chk1"
    /\ kpRet' = r
    /\ kill_lim' = lim
    /\ ctr' = 0
    /\ nkill' = 0
    /\ nterm' = 0
    /\ termAlive' = FALSE

\* self.timed_out = True; return False: the loop breaks, post_checks is next
\* (TimedOutFallsThrough: "return False" missing, so that the health check
\* of the same tick still runs)
TimedOutFallsThrough ==
    IF conf.cls = "CallbackProcess" THEN "callback" ELSE "post_checks"
TimedOutReturn == "post_checks"

PeriodicStatusChecks ==
    /\ pc = "psc"
    /\ IF conf.cls # "Process" /\ TimeoutTripped
       THEN timed_out' = TRUE /\ pc' = TimedOutReturn /\ UNCHANGED wake
       ELSE /\ UNCHANGED timed_out
            /\ IF conf.cls = "CallbackProcess" /\ CadenceElapsed
               THEN pc' = "callback" /\ UNCHANGED wake
               ELSE pc' = LoopTop /\ wake' = Deadline(LoopWait)
    /\ UNCHANGED <<call, kpRet, exc, rd, callback_failure, nfail,
                   last_callback, start_t, success, cbo>>
    /\ UNCHANGED <<procV, kpV, outV, envV>>

\* "except Exception:" catches what derives from Exception and nothing else
\* (CaughtNothing: the try without its except clause)
CaughtNothing(o) == FALSE
Caught(o) == o = "Exception"

\* try: success = self.callback(*self.callback_args)
\* except Exception: traceback.print_exc(); success = False
\* (the clock does not move between "now = time.time()" and these steps)
CallbackInvoke(o) ==
    /\ pc = "callback"
    /\ IF o \in {"Exception", "BaseException"} /\ ~Caught(o)
       THEN Raise(o) /\ UNCHANGED <<success, cbo>>
       ELSE /\ success' = (o = "true")
            /\ cbo' = o
            /\ pc' = "cb_result"
            /\ UNCHANGED exc
    /\ UNCHANGED <<call, kpRet, wake, rd, timed_out, callback_failure, nfail,
                   last_callback, start_t>>
    /\ UNCHANGED <<procV, kpV, outV, envV>>

\* if not success: self.callback_failure = True; self.kill_process();
\* return False -- else self.last_callback = now; return True
CallbackResult ==
    /\ pc = "cb_result"
    /\ cbo' = "none"
    /\ IF success
       THEN /\ last_callback' = clock
            /\ pc' = LoopTop
            /\ wake' = Deadline(LoopWait)
            /\ UNCHANGED <<kpRet, callback_failure, nfail, kpV>>
       ELSE /\ callback_failure' = TRUE
            /\ nfail' = nfail + 1
            /\ EnterKill("psc", KillLimDefault)
            /\ UNCHANGED <<wake, last_callback>>
    /\ UNCHANGED <<call, exc, rd, timed_out, start_t, success>>
    /\ UNCHANGED <<procV, outV, envV>>

\* ------------------------------------------- post_checks, do_timeout
AfterDoTimeout == IF conf.cls = "CallbackProcess" THEN "post_cb" ELSE "done"

PostChecks ==
    /\ pc = "post_checks"
    /\ pc' = IF timed_out THEN "dt_sigterm" ELSE AfterDoTimeout
    /\ UNCHANGED <<call, kpRet, exc, wake, rd>>
    /\ UNCHANGED <<procV, flagsV, kpV, outV, envV>>

\* self.send_signal(signal.SIGTERM)
DoTimeoutSigterm ==
    /\ pc = "dt_sigterm"
    /\ child' = Signalled(SIGTERM)
    /\ pc' = "dt_poll"
    /\ UNCHANGED <<call, kpRet, exc, wake, rd, returncode, exit_status>>
    /\ UNCHANGED <<flagsV, kpV, outV, envV>>

\* if self.proc.poll() is None: self.kill_process()
\* (DoTimeoutAliveNever: do_timeout without the call of kill_process)
DoTimeoutAliveNever == FALSE
DoTimeoutAlive == Poll = None

DoTimeoutPoll ==
    /\ pc = "dt_poll"
    /\ returncode' = Poll
    /\ child' = Polled
    /\ IF DoTimeoutAlive
       THEN EnterKill("dt", KillLimDefault)
       ELSE pc' = "dt_raise" /\ UNCHANGED <<kpRet, kpV>>
    /\ UNCHANGED <<call, exc, wake, rd, exit_status>>
    /\ UNCHANGED <<flagsV, outV, envV>>

\* if self.raise_on_timeout: raise TimedOut
DoTimeoutRaise ==
    /\ pc = "dt_raise"
    /\ IF conf.raise_on_timeout
       THEN Raise("TimedOut")
       ELSE pc' = AfterDoTimeout /\ UNCHANGED exc
    /\ UNCHANGED <<call, kpRet, wake, rd>>
    /\ UNCHANGED <<procV, flagsV, kpV, outV, envV>>

\* if self.callback_failure and self.raise_on_callback: raise CallbackFailed
PostCallback ==
    /\ pc = "post_cb"
    /\ IF callback_failure /\ conf.raise_on_callback
       THEN Raise("CallbackFailed")
       ELSE pc' = "done" /\ UNCHANGED exc
    /\ UNCHANGED <<call, kpRet, wake, rd>>
    /\ UNCHANGED <<procV, flagsV, kpV, outV, envV>>

\* ------------------------------------------------------ kill_process
\* where "return" of kill_process leads: back into _periodic_status_checks
\* (return False, break, then post_checks), into do_timeout, or to the caller
\* (KpReturnContinue: "return False" missing after self.kill_process())
KpReturnContinue ==
    IF kpRet = "psc" THEN "select"
    ELSE IF kpRet = "dt" THEN "dt_raise" ELSE "idle"
KpReturn ==
    IF kpRet = "psc" THEN "post_checks"
    ELSE IF kpRet = "dt" THEN "dt_raise" ELSE "idle"

\* the liveness checks of kill_process; next is the position when the child
\* is alive and p the pause that starts there (0: none)
KpChk(here, next, p) ==
    /\ pc = here
    /\ chk_term(KpReturn, next)
    /\ wake' = IF Poll = None /\ p > 0 THEN Deadline(p) ELSE wake
    /\ termAlive' = (termAlive \/ (nterm > 0 /\ Poll = None))
    /\ UNCHANGED <<call, kpRet, exc, rd, ctr, kill_lim, nkill, nterm>>
    /\ UNCHANGED <<flagsV, outV, envV>>

KpChk1 == KpChk("kp_chk1", "kp_termpause", TermPause)
\* (KpChk2NoSigterm: the SIGTERM step left out, straight on to SIGKILL)
KpChk2NoSigterm == KpChk("kp_chk2", "kp_killpause", KillPause)
KpChk2 == KpChk("kp_chk2", "kp_sigterm", 0)
KpChk3 == KpChk("kp_chk3", "kp_while", 0)
KpWhile == KpChk("kp_while", "kp_killpause", KillPause)

\* time.sleep(termpause), time.sleep(killpause)
KpSleep(here, next) ==
    /\ pc = here
    /\ Awake
    /\ pc' = next
    /\ UNCHANGED <<call, kpRet, exc, wake, rd>>
    /\ UNCHANGED <<procV, flagsV, kpV, outV, envV>>

KpTermPause == KpSleep("kp_termpause", "kp_chk2")
KpKillPause1 == KpSleep("kp_killpause1", "kp_chk3")
KpKillPause == KpSleep("kp_killpause", "kp_sigkill")

\* self.send_signal(signal.SIGTERM); time.sleep(killpause) begins
KpSigterm ==
    /\ pc = "kp_sigterm"
    /\ child' = Signalled(SIGTERM)
    /\ nterm' = nterm + 1
    /\ wake' = Deadline(KillPause)
    /\ pc' = "kp_killpause1"
    /\ UNCHANGED <<call, kpRet, exc, rd, returncode, exit_status,
                   ctr, kill_lim, nkill, termAlive>>
    /\ UNCHANGED <<flagsV, outV, envV>>

\* if ctr > kill_lim: raise CannotKill
\* (LimitReached: >= for >, the limit counted one SIGKILL short)
LimitReached(c) == c >= kill_lim
LimitExceeded(c) == c > kill_lim

\* self.send_signal(signal.SIGKILL); ctr += 1; if ctr > kill_lim: raise
KpSigkill ==
    /\ pc = "kp_sigkill"
    /\ child' = Signalled(SIGKILL)
    /\ nkill' = nkill + 1
    /\ ctr' = ctr + 1
    /\ IF LimitExceeded(ctr + 1)
       THEN Raise("CannotKill")
       ELSE pc' = "kp_while" /\ UNCHANGED exc
    /\ UNCHANGED <<call, kpRet, wake, rd, returncode, exit_status, kill_lim,
                   nterm, termAlive>>
    /\ UNCHANGED <<flagsV, outV, envV>>

\* ------------------------------------- the caller's own method calls
\* After start() or a finished run the caller may use the object's public
\* methods: chk_term and send_signal at any time, kill_process on a child it
\* started with start() itself.
Idle == pc \in {"idle", "done", "raised"} /\ child.state # "unborn"

ApiChkTerm ==
    /\ Idle
    /\ chk_term("idle", "idle")
    /\ call' = "api"
    /\ exc' = "none"
    /\ UNCHANGED <<kpRet, wake, rd>>
    /\ UNCHANGED <<flagsV, kpV, outV, envV>>

ApiSendSignal(sig) ==
    /\ Idle
    /\ child' = Signalled(sig)
    /\ call' = "api"
    /\ pc' = "idle"
    /\ exc' = "none"
    /\ UNCHANGED <<kpRet, wake, rd, returncode, exit_status>>
    /\ UNCHANGED <<flagsV, kpV, outV, envV>>

ApiKillProcess(lim) ==
    /\ Idle
    /\ conf.entry = "start"
    /\ EnterKill("api", lim)
    /\ call' = "api"
    /\ exc' = "none"
    /\ UNCHANGED <<wake, rd>>
    /\ UNCHANGED <<procV, flagsV, outV, envV>>

\* --------------------------------------------------- run_with_timeout
\* the parameters of Process.__init__ that can be passed by keyword
InitKeywords == {"prog", "stdout", "stderr", "stdin"}

\* p = Program(cmdline, env); proc = Process(p, timeout=timeout): a keyword
\* the constructor does not have is a TypeError, raised before any child is
\* started; proc.gather_output() and the conversions of the results follow
\* only when the object was made.
RunWithTimeout ==
    /\ pc = "start"
    /\ call = "run_with_timeout"
    /\ IF "timeout" \in InitKeywords
       THEN call' = "gather_output" /\ UNCHANGED <<pc, exc>>
       ELSE Raise("TypeError") /\ UNCHANGED call
    /\ UNCHANGED <<kpRet, wake, rd>>
    /\ UNCHANGED <<procV, flagsV, kpV, outV, envV>>

\* ------------------------------------------------------------- Next
Next ==
    \/ \E s \in {"out", "err"} : ChildWrite(s)
    \/ \E c \in ExitCodes : ChildExit(c)
    \/ ChildDie
    \/ Tick
    \/ Start
    \/ SelectReturn
    \/ SelectEINTR
    \/ ReadFd
    \/ LoopChkTerm
    \/ DrainOut
    \/ DrainErr
    \/ RunSleep
    \/ PeriodicStatusChecks
    \/ \E o \in CallbackOutcomes : CallbackInvoke(o)
    \/ CallbackResult
    \/ PostChecks
    \/ DoTimeoutSigterm
    \/ DoTimeoutPoll
    \/ DoTimeoutRaise
    \/ PostCallback
    \/ KpChk1
    \/ KpTermPause
    \/ KpChk2
    \/ KpSigterm
    \/ KpKillPause1
    \/ KpChk3
    \/ KpWhile
    \/ KpKillPause
    \/ KpSigkill
    \/ ApiChkTerm
    \/ \E sig \in Signals : ApiSendSignal(sig)
    \/ \E lim \in 0..MaxKillLim : ApiKillProcess(lim)
    \/ RunWithTimeout

Spec == Init /\ [][Next]_vars

\* ------------------------------------------- a supervised run, fairly
\* One gather_output or run of a TimeoutProcess with a timeout, from the
\* call to its end; what the caller does with the object afterwards is not
\* part of it.
LiveInit == Init /\ conf.cls = "TimeoutProcess" /\ conf.timeout > 0

\* the steps of the supervisor's own thread of control
SupervisorStep ==
    \/ Start
    \/ SelectReturn
    \/ ReadFd
    \/ LoopChkTerm
    \/ DrainOut
    \/ DrainErr
    \/ RunSleep
    \/ PeriodicStatusChecks
    \/ PostChecks
    \/ DoTimeoutSigterm
    \/ DoTimeoutPoll
    \/ DoTimeoutRaise
    \/ KpChk1
    \/ KpTermPause
    \/ KpChk2
    \/ KpSigterm
    \/ KpKillPause1
    \/ KpChk3
    \/ KpWhile
    \/ KpKillPause
    \/ KpSigkill

LiveNext ==
    \/ \E s \in {"out", "err"} : ChildWrite(s)
    \/ \E c \in ExitCodes : ChildExit(c)
    \/ ChildDie
    \/ Tick
    \/ SelectEINTR
    \/ SupervisorStep

\* The supervisor is a running process: a step it can take it does take.
\* Time passes while it waits, and the kernel delivers a pending fatal
\* signal.  Nothing obliges the child to write or to exit, nor a signal to
\* interrupt select.
LiveSpec ==
    /\ LiveInit
    /\ [][LiveNext]_vars
    /\ WF_vars(SupervisorStep)
    /\ WF_vars(Tick)
    /\ WF_vars(ChildDie)

\* ============================================================ claims
\* gather_output / run has finished: it returned, or raised one of the two
\* conditions the caller opted into
Finished ==
    /\ call \in {"gather_output", "run"}
    /\ \/ pc = "done"
       \/ pc = "raised" /\ exc \in {"TimedOut", "CallbackFailed"}

BothCaptured == conf.outstream = PIPE /\ conf.errstream = PIPE

\* C1: with both streams captured, a run of gather_output in which no policy
\* trips (no timeout, no failed health check) and the child exits on its own
\* never fails in a read, and when it returns self.stdout and self.stderr
\* are exactly the chunks the child wrote to each stream, in order.
C1_ExactOutput ==
    (call = "gather_output" /\ BothCaptured /\ ~timed_out /\ ~callback_failure)
    => /\ ~(pc = "raised" /\ exc \in {"IOError", "AttributeError"})
       /\ pc = "done" => /\ child.code \in ExitCodes
                         /\ stdout = written.out
                         /\ stderr = written.err

C1_Witness ==
    /\ call = "gather_output" /\ pc = "done" /\ BothCaptured
    /\ ~timed_out /\ ~callback_failure
    /\ stdout = <<1, 2>>

\* C2 as stated: a TimeoutProcess whose child was still running more than
\* timeout after start finishes with timed_out set.
C2_OverrunAlwaysFlagged ==
    (Finished /\ conf.cls = "TimeoutProcess" /\ overran) => timed_out

\* C2 amended: on every tick whose liveness check found the child running
\* and on which the time since start exceeds a positive timeout, timed_out is
\* set and the loop is left; once set, timed_out stays set to the finish.
C2_TickPastTimeoutFlags ==
    [][/\ timed_out => timed_out'
       /\ (/\ pc = "psc" /\ pc' # pc
           /\ conf.cls # "Process"
           /\ conf.timeout > 0 /\ clock - start_t > conf.timeout)
          => timed_out' /\ pc' = "post_checks"]_vars

C2_Witness == Finished /\ conf.cls = "TimeoutProcess" /\ timed_out /\ overran

\* C3 as stated, for a limit of at least one: kill_process on a child that
\* ignores SIGTERM, does not exit by itself and dies from SIGKILL never
\* raises CannotKill and sends at most kill_lim SIGKILLs.
C3_KillableWithinLimit ==
    (/\ call = "api" /\ kpRet = "api" /\ kill_lim >= 1
     /\ conf.ignoresTerm /\ conf.killable /\ child.code \notin ExitCodes)
    => /\ ~(pc = "raised" /\ exc = "CannotKill")
       /\ nkill <= kill_lim

\* C4: the step that sets callback_failure is the callback's failure on a
\* tick, sets it for the first and only time and enters kill_process at once;
\* from then on the supervisor is never again at a read, a wait or a check of
\* the loop, so the callback is not invoked again.
LoopPcs == {"start", "select", "read", "run_sleep", "run_chk", "drain_out",
            "drain_err", "psc", "callback", "cb_result"}

C4_FailureStopsLoop ==
    /\ [](callback_failure => nfail = 1 /\ pc \notin LoopPcs)
    /\ [][(~callback_failure /\ callback_failure')
          => /\ pc = "cb_result" /\ ~success
             /\ pc' = "kp_chk1" /\ kpRet' = "psc"
             /\ stdout' = stdout /\ stderr' = stderr]_vars

C4_Witness ==
    /\ callback_failure /\ call = "gather_output" /\ pc = "done"
    /\ child.code = 0 - SIGKILL

\* C5 as stated: whenever the child has exited, collected or not, a
\* send_signal the caller makes returns False.
C5_ExitedNotDelivered ==
    (Idle /\ child.state \in {"zombie", "reaped"})
    => \A sig \in Signals : send_signal(sig) = FALSE

\* C6: exit_status changes only in a step that is a chk_term, only from None,
\* and only to the exit code of the child that this chk_term collected or
\* that was collected before; whenever it is set it is that exit code.
ChkTermPcs == {"read", "run_chk", "kp_chk1", "kp_chk2", "kp_chk3",
               "kp_while", "idle", "done", "raised"}

C6_ExitStatusSetOnce ==
    /\ [](exit_status # None
          => child.state = "reaped" /\ exit_status = child.code)
    /\ [][/\ exit_status # None => exit_status' = exit_status
          /\ exit_status' # exit_status
             => /\ pc \in ChkTermPcs
                /\ child.state \in {"zombie", "reaped"}
                /\ exit_status' = child.code]_vars

C6_Witness ==
    /\ exit_status = 0 - SIGTERM /\ call = "api" /\ pc = "idle"
    /\ conf.cls = "TimeoutProcess" /\ timed_out

\* C7 as stated, on the path it names: when a run of a TimeoutProcess or
\* CallbackProcess that timed out finishes and the child died from SIGTERM,
\* the child has terminated and exit_status holds its exit code.
C7_FinishedHasExitStatus ==
    (Finished /\ conf.cls # "Process" /\ timed_out
     /\ child.code = 0 - SIGTERM)
    => child.state \in {"zombie", "reaped"} /\ exit_status # None

\* C8: TimedOut is raised only with raise_on_timeout, CallbackFailed only with
\* raise_on_callback, and either only when the child has been seen terminated
\* (collected by a poll), never while it runs.
C8_RaiseAfterKill ==
    /\ (pc = "raised" /\ exc = "TimedOut")
       => conf.raise_on_timeout /\ timed_out /\ child.state = "reaped"
    /\ (pc = "raised" /\ exc = "CallbackFailed")
       => conf.raise_on_callback /\ callback_failure /\ child.state = "reaped"

C8_Witness == pc = "raised" /\ exc = "TimedOut" /\ nkill >= 1

\* C9 as stated: whenever gather_output finishes with both streams captured,
\* everything the child wrote is in self.stdout / self.stderr.
C9_AllOutputOnEveryPath ==
    (Finished /\ call = "gather_output" /\ BothCaptured)
    => stdout = written.out /\ stderr = written.err

\* C10 as stated: nothing the callback raises leaves gather_output or run.
C10_NoCallbackExceptionEscapes ==
    ~(pc = "raised" /\ exc \in {"Exception", "BaseException"})

\* C10 amended: an exception of the callback that derives from Exception
\* never leaves gather_output or run; it yields success = False as a false
\* return does, and the next step sets callback_failure and enters
\* kill_process, ending the loop.
C10_ExceptionIsFailure ==
    /\ [](~(pc = "raised" /\ exc = "Exception"))
    /\ []((pc = "cb_result" /\ cbo \in {"false", "Exception"}) => ~success)
    /\ [][(pc = "cb_result" /\ cbo \in {"false", "Exception"} /\ pc' # pc)
          => callback_failure' /\ pc' = "kp_chk1" /\ kpRet' = "psc"]_vars

C10_Witness == pc = "kp_chk1" /\ kpRet = "psc" /\ callback_failure

\* ---------------------------------------------------------------- C11
\* a step of CallbackProcess._periodic_status_checks: one tick of the loop
CallbackTick == pc = "psc" /\ pc' # pc /\ conf.cls = "CallbackProcess"

\* C11 as stated: on every tick of a CallbackProcess loop whose cadence has
\* elapsed the health check is evaluated, whatever the timeout check of that
\* tick found.
C11_BothChecksEveryTick ==
    [][(CallbackTick /\ clock - last_callback >= conf.callback_freq)
          => pc' = "callback"]_vars

\* C11 amended: the timeout check is evaluated on every tick and comes
\* first; when it trips, the tick sets timed_out and leaves the loop without
\* evaluating the health check; only when it does not trip is the health
\* check evaluated, exactly on the ticks whose cadence has elapsed.
C11_TimeoutCheckFirst ==
    [][CallbackTick =>
          IF conf.timeout # 0 /\ clock - start_t > conf.timeout
          THEN timed_out' /\ pc' = "post_checks" /\ ~callback_failure'
          ELSE /\ timed_out' = timed_out
               /\ (pc' = "callback")
                     <=> (clock - last_callback >= conf.callback_freq)]_vars

\* a tick that evaluated both checks: timeout configured and not tripped,
\* cadence elapsed, callback about to run
C11_Witness ==
    /\ pc = "callback"
    /\ conf.timeout # 0
    /\ clock - start_t <= conf.timeout
    /\ clock - last_callback >= conf.callback_freq

\* ---------------------------------------------------------------- C12
\* C12: run_with_timeout returns a tuple (out, err, status) as a value,
\* both when the child exited in time and when it timed out: a call of
\* run_with_timeout never ends with an exception.
C12_ReturnsTuple == call = "run_with_timeout" => pc # "raised"

\* ---------------------------------------------------------------- C13
\* C13: CannotKill is raised only while the child is still alive: in the
\* step that raises it the retry counter exceeds kill_lim and the child has
\* not terminated; in particular a child killed by one of the SIGKILLs
\* (one that did not exit by itself) never produces CannotKill.
C13_CannotKillOnlyAlive ==
    [][(pc # "raised" /\ pc' = "raised" /\ exc' = "CannotKill"
           /\ child'.code \notin ExitCodes)
          => ctr' > kill_lim /\ child'.state = "running"]_vars

\* ---------------------------------------------------------------- C14
\* C14: one call of kill_process sends at most one SIGTERM and at most
\* kill_lim + 1 SIGKILLs, the SIGTERM before any SIGKILL; when it raises
\* CannotKill, as it does for a child that never dies, it has sent exactly
\* one SIGTERM and exactly kill_lim + 1 SIGKILLs; and it returns only for
\* a child that has terminated.
KpPcs == {"kp_chk1", "kp_termpause", "kp_chk2", "kp_sigterm",
          "kp_killpause1", "kp_chk3", "kp_while", "kp_killpause",
          "kp_sigkill"}

C15_CheckBetweenPauseAndSignal ==
    [][(pc' \in {"kp_sigterm", "kp_sigkill"} /\ pc' # pc)
          => pc \in {"kp_chk1", "kp_chk2", "kp_chk3", "kp_while"}]_vars

\* ---------------------------------------------------------------- C16
KpChkPcs == {"kp_chk1", "kp_chk2", "kp_chk3", "kp_while"}

\* C16: kill_process sends SIGKILL only after it has sent SIGTERM and a
\* liveness check after that SIGTERM has found the child still alive; and a
\* liveness check of kill_process that finds the child terminated (at the
\* entry, after termpause, after the SIGTERM pause, in the loop) makes it
\* return with no further signal sent.
C16_KillOnlyAfterTerm ==
    /\ [][nkill' > nkill => nterm = 1 /\ termAlive]_vars
    /\ [][(pc \in KpChkPcs /\ pc' # pc /\ returncode' # None)
            => /\ pc' \notin KpPcs
               /\ nkill' = nkill
               /\ nterm' = nterm
               /\ child'.pending = child.pending]_vars

\* a timed-out child that survived SIGTERM and was then killed by SIGKILL
C16_Witness ==
    /\ kpRet = "dt"
    /\ timed_out
    /\ termAlive
    /\ nkill >= 1
    /\ child.code = 0 - SIGKILL
    /\ pc = "done"

\* ---------------------------------------------------------------- C17
\* the positions where the supervisor sends a signal or escalates
SignalPcs == KpPcs \cup {"dt_sigterm", "dt_poll", "dt_raise"}

\* C17: timed_out becomes True only in a tick of _periodic_status_checks
\* with a timeout configured and the time since the start strictly above
\* it; and in a run with no timeout configured and no failed callback
\* timed_out stays False and the supervisor sends no signal to the child:
\* it never reaches do_timeout or kill_process, nothing is pending for the
\* child, and the child is running or has exited by itself.
C17_TimedOutOnlyPastTimeout ==
    /\ [][(~timed_out /\ timed_out')
            => /\ pc = "psc"
               /\ conf.timeout > 0
               /\ clock - start_t > conf.timeout]_vars
    /\ []((conf.timeout = 0 /\ ~callback_failure
               /\ call \in {"gather_output", "run"})
            => /\ ~timed_out
               /\ pc \notin SignalPcs
               /\ nterm = 0 /\ nkill = 0
               /\ child.pending = 0
               /\ child.code \in ExitCodes \cup {None})

\* the tick that sets timed_out, one time unit past the timeout
C17_Witness ==
    /\ pc = "post_checks"
    /\ timed_out
    /\ returncode = None
    /\ clock - start_t = conf.timeout + 1

\* ---------------------------------------------------------------- C18
\* C18: gather_output finishes normally whenever at least one of stdout and
\* stderr is not captured: it reads and drains only the captured pipes and
\* never touches a stream that is no pipe, so it never fails on one.
C18_UncapturedStreamsUntouched ==
    (call = "gather_output" /\ ~BothCaptured)
        => ~(pc = "raised" /\ exc = "AttributeError")

\* ---------------------------------------------------------------- C19
\* C19: within a run of a CallbackProcess timed_out and callback_failure
\* are never both True, so at most one of TimedOut and CallbackFailed can
\* be raised: TimedOut only without a failed callback, CallbackFailed only
\* without a timeout.
C19_FlagsExclusive ==
    /\ ~(timed_out /\ callback_failure)
    /\ (pc = "raised" /\ exc = "TimedOut" => ~callback_failure)
    /\ (pc = "raised" /\ exc = "CallbackFailed" => ~timed_out)

\* post_checks of a run whose callback failed and whose kill took it past
\* the configured timeout: only callback_failure is set
C19_Witness ==
    /\ pc = "post_cb"
    /\ callback_failure
    /\ conf.timeout # 0
    /\ clock - start_t > conf.timeout

\* ---------------------------------------------------------------- C20
\* C20: with a timeout configured and time advancing, gather_output and run
\* of a TimeoutProcess always eventually finish, by returning or by raising
\* TimedOut or CannotKill, also for a child that never exits by itself and
\* ignores SIGTERM.
C20_FinishesAsListed ==
    <>(pc = "done" \/ (pc = "raised" /\ exc \in {"TimedOut", "CannotKill"}))

\* What does hold of C20: the supervisor never loops forever.  Every fair
\* run finishes, and the one way of finishing that C20 does not list is the
\* AttributeError of the final drain, in gather_output with an uncaptured
\* stream once the child has terminated.
C20_NeverLoopsForever ==
    <>(\/ pc = "done"
       \/ pc = "raised" /\ exc \in {"TimedOut", "CannotKill"}
       \/ /\ pc = "raised"
          /\ exc = "AttributeError"
          /\ call = "gather_output"
          /\ ~BothCaptured
          /\ returncode # None)
====
